---------------------------- MODULE Spec2Model ----------------------------
(***************************************************************************)
(* submit_app.py: one command-line invocation that builds an IPA with      *)
(* `xcode-project build-ipa` and publishes it with `app-store-connect      *)
(* publish`.  The model follows main() -> parse_args() -> submit_app() ->  *)
(* build_ipa() -> submit_to_app_store(), with the two subprocesses, the    *)
(* files on disk and the command line as the environment.                  *)
(*                                                                         *)
(* Strings are Python strings; a pathlib.Path is modelled by its str().    *)
(***************************************************************************)
EXTENDS Integers, Sequences, FiniteSets, TLC

(* ------------------------------ bounds --------------------------------- *)

\* Spec: options given on the command line besides the project/workspace pair.
MaxOptions == 1
\* CmdSpec: options given on the command line besides the project/workspace pair.
MaxCmdOptions == 2
\* LocateSpec: lines the build tool prints, and files it leaves on disk.
MaxLines == 2
MaxFiles == 2

(* --------------------------- Python strings ---------------------------- *)

None == "<None>"
Absent == "<absent>"
Present == "<present>"

Whitespace == {" ", "\t", "\n", "\r"}

CharAt(s, i) == SubSeq(s, i, i)

RECURSIVE LStrip(_)
LStrip(s) ==
    IF s # "" /\ CharAt(s, 1) \in Whitespace
    THEN LStrip(SubSeq(s, 2, Len(s)))
    ELSE s

RECURSIVE RStrip(_)
RStrip(s) ==
    IF s # "" /\ CharAt(s, Len(s)) \in Whitespace
    THEN RStrip(SubSeq(s, 1, Len(s) - 1))
    ELSE s

\* str.strip()
Strip(s) == RStrip(LStrip(s))

\* index of the first occurrence of the character c in s at or after i, else 0
RECURSIVE Find(_, _, _)
Find(s, c, i) ==
    IF i > Len(s) THEN 0
    ELSE IF CharAt(s, i) = c THEN i
    ELSE Find(s, c, i + 1)

\* str.split(sep) for a one-character separator: "" gives [""]
RECURSIVE Split(_, _)
Split(s, sep) ==
    LET k == Find(s, sep, 1)
    IN  IF k = 0 THEN <<s>>
        ELSE <<SubSeq(s, 1, k - 1)>> \o Split(SubSeq(s, k + 1, Len(s)), sep)

\* str.endswith(suffix)
EndsWith(s, suffix) ==
    /\ Len(s) >= Len(suffix)
    /\ SubSeq(s, Len(s) - Len(suffix) + 1, Len(s)) = suffix

\* sep.join(parts)
RECURSIVE Join(_, _)
Join(parts, sep) ==
    IF parts = <<>> THEN ""
    ELSE IF Len(parts) = 1 THEN parts[1]
    ELSE parts[1] \o sep \o Join(Tail(parts), sep)

\* repr() of a list of strings, as CalledProcessError prints its cmd
RECURSIVE Quoted(_)
Quoted(parts) ==
    IF parts = <<>> THEN <<>>
    ELSE <<"'" \o parts[1] \o "'">> \o Quoted(Tail(parts))

ReprList(parts) == "[" \o Join(Quoted(parts), ", ") \o "]"

Digits == <<"0", "1", "2", "3", "4", "5", "6", "7", "8", "9">>

DigitValue(c) == (CHOOSE d \in 1..10 : Digits[d] = c) - 1

IsDigits(s) ==
    /\ s # ""
    /\ \A i \in 1..Len(s) : \E d \in 1..10 : Digits[d] = CharAt(s, i)

RECURSIVE DigitsValue(_)
DigitsValue(s) ==
    IF s = "" THEN 0
    ELSE 10 * DigitsValue(SubSeq(s, 1, Len(s) - 1)) + DigitValue(CharAt(s, Len(s)))

\* int(token) of argparse's type=int: whether it converts, and to what
IsInt(s) ==
    \/ IsDigits(s)
    \/ Len(s) > 1 /\ CharAt(s, 1) \in {"-", "+"} /\ IsDigits(SubSeq(s, 2, Len(s)))

ParseInt(s) ==
    IF CharAt(s, 1) = "-" THEN 0 - DigitsValue(SubSeq(s, 2, Len(s)))
    ELSE IF CharAt(s, 1) = "+" THEN DigitsValue(SubSeq(s, 2, Len(s)))
    ELSE DigitsValue(s)

(* ------------------------------ pathlib -------------------------------- *)

RECURSIVE Components(_)
Components(parts) ==
    IF parts = <<>> THEN <<>>
    ELSE IF parts[1] \in {"", "."} THEN Components(Tail(parts))
    ELSE <<parts[1]>> \o Components(Tail(parts))

\* str(pathlib.Path(s)) on POSIX: "" is ".", repeated and trailing slashes and
\* "." components are dropped
PathStr(s) ==
    LET root == IF s # "" /\ CharAt(s, 1) = "/" THEN "/" ELSE ""
        rel  == Join(Components(Split(s, "/")), "/")
    IN  IF root = "" /\ rel = "" THEN "." ELSE root \o rel

\* str(dir / name)
PathJoin(dir, name) == PathStr(dir \o "/" \o name)

(* -------------------------- the command line --------------------------- *)

PairOptions == {"xcode_project", "xcode_workspace"}

StrOptions ==
    {"scheme", "target", "configuration",
     "key_identifier", "issuer_id", "private_key",
     "apple_id", "app_specific_password",
     "version_string", "whats_new", "description", "keywords",
     "marketing_url", "support_url", "copyright", "earliest_release_date"}

PathOptions ==
    {"archive_directory", "ipa_directory", "export_options_plist", "private_key_path"}

FlagOptions ==
    {"clean", "remove_xcarchive", "submit_to_app_store", "phased_release",
     "cancel_previous_submissions", "verbose", "help"}

IntOptions == {"max_build_processing_wait"}

OtherOptions == StrOptions \cup PathOptions \cup FlagOptions \cup IntOptions

Options == PairOptions \cup OtherOptions

\* the raw tokens a caller may give for an option
Tokens(o) ==
    IF o \in FlagOptions THEN {Present}
    ELSE IF o \in IntOptions THEN {"0", "045", "abc"}
    ELSE IF o = "xcode_project" THEN {"App.xcodeproj"}
    ELSE IF o = "xcode_workspace" THEN {"App.xcworkspace"}
    ELSE IF o = "archive_directory" THEN {"", "build//archive"}
    ELSE IF o = "ipa_directory" THEN {"", "out/"}
    ELSE IF o = "export_options_plist" THEN {"", "./export.plist"}
    ELSE IF o = "private_key_path" THEN {"", "keys/AuthKey.p8"}
    ELSE {"", "<" \o o \o ">"}

RECURSIVE SubsetsUpTo(_, _)
SubsetsUpTo(U, k) ==
    IF k = 0 THEN {{}}
    ELSE {{}} \cup {T \cup {o} : T \in SubsetsUpTo(U, k - 1), o \in U}

RECURSIVE Assignments(_)
Assignments(S) ==
    IF S = {} THEN {[o \in {} |-> Absent]}
    ELSE LET o == CHOOSE x \in S : TRUE
         IN  {f @@ (o :> t) : f \in Assignments(S \ {o}), t \in Tokens(o)}

\* a command line: for each option the token given with it, or Absent
CommandLine(given) == [o \in Options |-> IF o \in DOMAIN given THEN given[o] ELSE Absent]

CommandLines(pairs, k) ==
    {CommandLine(f) : f \in UNION {Assignments(P \cup S) :
                                     P \in pairs, S \in SubsetsUpTo(OtherOptions, k)}}

(* ---------------------- create_argument_parser ------------------------- *)

DefaultWait == 600

StoreStr(v, o) == IF v[o] = Absent THEN None ELSE v[o]
StorePath(v, o) == IF v[o] = Absent THEN None ELSE PathStr(v[o])
StoreTrue(v, o) == v[o] # Absent

StoreWait(v) ==
    IF v["max_build_processing_wait"] = Absent
    THEN DefaultWait
    ELSE ParseInt(v["max_build_processing_wait"])

\* the Namespace parse_args() returns for an accepted command line
Namespace(v) ==
    [xcode_project |-> StorePath(v, "xcode_project"),
     xcode_workspace |-> StorePath(v, "xcode_workspace"),
     scheme |-> StoreStr(v, "scheme"),
     target |-> StoreStr(v, "target"),
     configuration |-> StoreStr(v, "configuration"),
     clean |-> StoreTrue(v, "clean"),
     archive_directory |-> StorePath(v, "archive_directory"),
     ipa_directory |-> StorePath(v, "ipa_directory"),
     export_options_plist |-> StorePath(v, "export_options_plist"),
     remove_xcarchive |-> StoreTrue(v, "remove_xcarchive"),
     key_identifier |-> StoreStr(v, "key_identifier"),
     issuer_id |-> StoreStr(v, "issuer_id"),
     private_key |-> StoreStr(v, "private_key"),
     private_key_path |-> StorePath(v, "private_key_path"),
     apple_id |-> StoreStr(v, "apple_id"),
     app_specific_password |-> StoreStr(v, "app_specific_password"),
     submit_to_app_store |-> StoreTrue(v, "submit_to_app_store"),
     version_string |-> StoreStr(v, "version_string"),
     whats_new |-> StoreStr(v, "whats_new"),
     description |-> StoreStr(v, "description"),
     keywords |-> StoreStr(v, "keywords"),
     marketing_url |-> StoreStr(v, "marketing_url"),
     support_url |-> StoreStr(v, "support_url"),
     copyright |-> StoreStr(v, "copyright"),
     earliest_release_date |-> StoreStr(v, "earliest_release_date"),
     phased_release |-> StoreTrue(v, "phased_release"),
     cancel_previous_submissions |-> StoreTrue(v, "cancel_previous_submissions"),
     max_build_processing_wait |-> StoreWait(v),
     verbose |-> StoreTrue(v, "verbose")]

\* add_mutually_exclusive_group(required=True): both given, or neither
GroupConflict(v) == v["xcode_project"] # Absent /\ v["xcode_workspace"] # Absent
GroupMissing(v) == v["xcode_project"] = Absent /\ v["xcode_workspace"] = Absent

\* type=int rejects the token
BadInt(v) ==
    /\ v["max_build_processing_wait"] # Absent
    /\ ~IsInt(v["max_build_processing_wait"])

\* parser.error(): raised while the arguments are consumed (a conflict, a bad
\* int) or after all are consumed (the required group is missing)
EarlyUsageError(v) == GroupConflict(v) \/ BadInt(v)
UsageError(v) == EarlyUsageError(v) \/ GroupMissing(v)

\* the statuses, had the pair not been declared mutually exclusive
ParseOutcomesNoGroup(v) ==
    IF v["help"] # Absent
    THEN {"help"} \cup (IF BadInt(v) THEN {"usage"} ELSE {})
    ELSE IF BadInt(v) \/ GroupMissing(v) THEN {"usage"}
    ELSE {"ok"}

\* the statuses parse_args() can end with: -h exits 0 when it is consumed, so
\* before the required-group check, and before or after an early error
\* depending on the order of the arguments
ParseOutcomes(v) ==
    IF v["help"] # Absent
    THEN {"help"} \cup (IF EarlyUsageError(v) THEN {"usage"} ELSE {})
    ELSE IF UsageError(v) THEN {"usage"}
    ELSE {"ok"}

(* ------------------------------ truthiness ----------------------------- *)

\* `if args.x:` for an Optional[str], an Optional[Path], an int
TruthyStr(x) == x # None /\ x # ""
TruthyPath(x) == x # None
TruthyInt(n) == n # 0

(* ----------------------------- build_ipa -------------------------------- *)

Valued(cond, flag, value) == IF cond THEN <<flag, value>> ELSE <<>>
Switch(cond, flag) == IF cond THEN <<flag>> ELSE <<>>

\* lines 59-65: which of the pair the command names; None raises
ProjectFlags(a) ==
    IF TruthyPath(a.xcode_project) THEN <<"--project", a.xcode_project>>
    ELSE IF TruthyPath(a.xcode_workspace) THEN <<"--workspace", a.xcode_workspace>>
    ELSE <<>>

HasProject(a) == ProjectFlags(a) # <<>>

\* lines 67-83
BuildOptionFlags(a) ==
       Valued(TruthyStr(a.scheme), "--scheme", a.scheme)
    \o Valued(TruthyStr(a.target), "--target", a.target)
    \o Valued(TruthyStr(a.configuration), "--configuration", a.configuration)
    \o Switch(a.clean, "--clean")
    \o Valued(TruthyPath(a.archive_directory), "--archive-directory", a.archive_directory)
    \o Valued(TruthyPath(a.ipa_directory), "--ipa-directory", a.ipa_directory)
    \o Valued(TruthyPath(a.export_options_plist), "--export-options-plist",
              a.export_options_plist)
    \o Switch(a.remove_xcarchive, "--remove-xcarchive")

BuildCommand(a) ==
       <<"python3", "-m", "codemagic.tools.xcode_project", "build-ipa">>
    \o ProjectFlags(a)
    \o BuildOptionFlags(a)

(* ------------------------- submit_to_app_store -------------------------- *)

\* the key-file path is passed as if it were the key
PrivateKeyFlagsNoPrefix(a) ==
    IF TruthyStr(a.private_key) THEN <<"--private-key", a.private_key>>
    ELSE IF TruthyPath(a.private_key_path) THEN <<"--private-key", a.private_key_path>>
    ELSE <<>>

\* lines 142-145
PrivateKeyFlags(a) ==
    IF TruthyStr(a.private_key) THEN <<"--private-key", a.private_key>>
    ELSE IF TruthyPath(a.private_key_path)
         THEN <<"--private-key", "@file:" \o a.private_key_path>>
    ELSE <<>>

\* lines 138-151
AuthFlags(a) ==
       Valued(TruthyStr(a.key_identifier), "--key-id", a.key_identifier)
    \o Valued(TruthyStr(a.issuer_id), "--issuer-id", a.issuer_id)
    \o PrivateKeyFlags(a)
    \o Valued(TruthyStr(a.apple_id), "--apple-id", a.apple_id)
    \o Valued(TruthyStr(a.app_specific_password), "--app-specific-password",
              a.app_specific_password)

\* --version-string is emitted whenever it was given, the empty string included
SubmissionFlagsEmptyVersion(a) ==
       Switch(a.submit_to_app_store, "--submit-to-app-store")
    \o Valued(a.version_string # None, "--version-string", a.version_string)
    \o Valued(TruthyStr(a.whats_new), "--whats-new", a.whats_new)
    \o Valued(TruthyStr(a.description), "--description", a.description)
    \o Valued(TruthyStr(a.keywords), "--keywords", a.keywords)
    \o Valued(TruthyStr(a.marketing_url), "--marketing-url", a.marketing_url)
    \o Valued(TruthyStr(a.support_url), "--support-url", a.support_url)
    \o Valued(TruthyStr(a.copyright), "--copyright", a.copyright)
    \o Valued(TruthyStr(a.earliest_release_date), "--earliest-release-date",
              a.earliest_release_date)
    \o Switch(a.phased_release, "--enable-phased-release")
    \o Switch(a.cancel_previous_submissions, "--cancel-previous-submissions")

\* lines 154-175
SubmissionFlags(a) ==
       Switch(a.submit_to_app_store, "--submit-to-app-store")
    \o Valued(TruthyStr(a.version_string), "--version-string", a.version_string)
    \o Valued(TruthyStr(a.whats_new), "--whats-new", a.whats_new)
    \o Valued(TruthyStr(a.description), "--description", a.description)
    \o Valued(TruthyStr(a.keywords), "--keywords", a.keywords)
    \o Valued(TruthyStr(a.marketing_url), "--marketing-url", a.marketing_url)
    \o Valued(TruthyStr(a.support_url), "--support-url", a.support_url)
    \o Valued(TruthyStr(a.copyright), "--copyright", a.copyright)
    \o Valued(TruthyStr(a.earliest_release_date), "--earliest-release-date",
              a.earliest_release_date)
    \o Switch(a.phased_release, "--enable-phased-release")
    \o Switch(a.cancel_previous_submissions, "--cancel-previous-submissions")

\* lines 177-179
WaitFlags(a) ==
    Valued(TruthyInt(a.max_build_processing_wait), "--max-build-processing-wait",
           ToString(a.max_build_processing_wait))

PublishCommand(ipa_path, a) ==
       <<"python3", "-m", "codemagic.tools.app_store_connect", "publish", ipa_path>>
    \o AuthFlags(a)
    \o SubmissionFlags(a)
    \o WaitFlags(a)

(* --------------------------- the environment --------------------------- *)

\* what subprocess.run() can come to: the child could not be started (OSError),
\* or it ran and exited with a status, its stdout and stderr captured
OsError == [spawned |-> FALSE, returncode |-> 0, stdout |-> "", stderr |-> ""]
Completed(rc, out, err) ==
    [spawned |-> TRUE, returncode |-> rc, stdout |-> out, stderr |-> err]
NoResult == [spawned |-> FALSE, returncode |-> 0, stdout |-> "<none>", stderr |-> "<none>"]

\* the files on disk: <<directory, name>> entries, in directory order
DiskEntries ==
    {<<"build/ios/ipa", "App.ipa">>, <<"out", "B.ipa">>, <<"out", "A.ipa">>,
     <<"out", "notes.txt">>}

RECURSIVE SeqsUpTo(_, _)
SeqsUpTo(S, k) ==
    IF k = 0 THEN {<<>>}
    ELSE {<<>>} \cup {<<x>> \o q : x \in S, q \in SeqsUpTo(S, k - 1)}

NoRepeats(q) == \A i, j \in 1..Len(q) : q[i] = q[j] => i = j

Disks(k) == {q \in SeqsUpTo(DiskEntries, k) : NoRepeats(q)}

\* lines the build tool may print
StdoutLines ==
    {"Archive ok", "ghost.ipa", "out/B.ipa", "  ./build/ios/ipa/App.ipa", "out/A.ipa "}

RECURSIVE Unlines(_)
Unlines(lines) ==
    IF lines = <<>> THEN "" ELSE lines[1] \o "\n" \o Unlines(Tail(lines))

Stdouts(k) == {Unlines(q) : q \in SeqsUpTo(StdoutLines, k)}

\* a build that ran to exit status 0: what it printed and what is on disk
BuiltOutcomes(outs, disks) ==
    {[result |-> Completed(0, o, ""), disk |-> d] : o \in outs, d \in disks}

FailedBuild ==
    [result |-> Completed(65, "Compiling App\n", "error: signing failed\n"), disk |-> <<>>]
UnstartedBuild == [result |-> OsError, disk |-> <<>>]

\* Spec: a few builds of each kind
SpecStdouts ==
    {"", "Archive ok\nbuild/ios/ipa/App.ipa\n", "ghost.ipa\nout/B.ipa\nout/A.ipa\n"}
SpecDisks ==
    {<<>>,
     <<<<"build/ios/ipa", "App.ipa">>>>,
     <<<<"out", "B.ipa">>, <<"out", "A.ipa">>, <<"build/ios/ipa", "App.ipa">>>>}
SpecBuildOutcomes ==
    {UnstartedBuild, FailedBuild} \cup BuiltOutcomes(SpecStdouts, SpecDisks)

\* CmdSpec: the build prints the package it made
CmdBuildOutcomes ==
    BuiltOutcomes({"build/ios/ipa/App.ipa\n"}, {<<<<"build/ios/ipa", "App.ipa">>>>})

\* LocateSpec: every output and disk within the bounds
LocateBuildOutcomes == BuiltOutcomes(Stdouts(MaxLines), Disks(MaxFiles))

PublishOutcomes ==
    {OsError,
     Completed(1, "Uploading\n", "error: authentication failed\n"),
     Completed(0, "Published App.ipa\n", "")}

(* ------------------------------ the disk ------------------------------- *)

\* pathlib.Path(p).exists(): a file, or a directory holding one
Exists(disk, p) ==
    \E i \in 1..Len(disk) :
        \/ PathJoin(disk[i][1], disk[i][2]) = p
        \/ PathStr(disk[i][1]) = p

\* list(dir.glob("*.ipa")): the directory's matching entries, in directory order
RECURSIVE Glob(_, _)
Glob(disk, dir) ==
    IF disk = <<>> THEN <<>>
    ELSE (IF PathStr(disk[1][1]) = dir /\ EndsWith(disk[1][2], ".ipa")
          THEN <<PathJoin(dir, disk[1][2])>>
          ELSE <<>>) \o Glob(Tail(disk), dir)

(* ------------------- build_ipa: finding the package --------------------- *)

DefaultIpaDir == PathStr("build/ios/ipa")

\* line 103
OutputLines(stdout) == Split(Strip(stdout), "\n")

\* the first line that ends in .ipa, on disk or not
RECURSIVE FirstIpaLineUnchecked(_, _)
FirstIpaLineUnchecked(lines, disk) ==
    IF lines = <<>> THEN None
    ELSE IF EndsWith(lines[1], ".ipa") THEN PathStr(lines[1])
    ELSE FirstIpaLineUnchecked(Tail(lines), disk)

\* lines 107-110: the first line that names an existing .ipa, else None
RECURSIVE FirstIpaLine(_, _)
FirstIpaLine(lines, disk) ==
    IF lines = <<>> THEN None
    ELSE IF EndsWith(lines[1], ".ipa") /\ Exists(disk, PathStr(lines[1]))
         THEN PathStr(lines[1])
    ELSE FirstIpaLine(Tail(lines), disk)

\* the default directory, whatever is configured
IpaDirDefaultOnly(a) == DefaultIpaDir

\* line 114
IpaDir(a) == IF TruthyPath(a.ipa_directory) THEN a.ipa_directory ELSE DefaultIpaDir

\* a path in the output directory is returned when no package is found
LocateIpaAssumed(stdout, disk, a) ==
    LET fromOutput == FirstIpaLine(OutputLines(stdout), disk)
        ipa_files  == Glob(disk, IpaDir(a))
    IN  IF fromOutput # None THEN [path |-> fromOutput, scanned |-> FALSE]
        ELSE IF ipa_files # <<>> THEN [path |-> ipa_files[1], scanned |-> TRUE]
        ELSE [path |-> PathJoin(IpaDir(a), "App.ipa"), scanned |-> TRUE]

\* lines 104-119: the path build_ipa returns (None: it raises), and whether it
\* listed the output directory
LocateIpa(stdout, disk, a) ==
    LET fromOutput == FirstIpaLine(OutputLines(stdout), disk)
        ipa_files  == Glob(disk, IpaDir(a))
    IN  IF fromOutput # None THEN [path |-> fromOutput, scanned |-> FALSE]
        ELSE IF ipa_files # <<>> THEN [path |-> ipa_files[1], scanned |-> TRUE]
        ELSE [path |-> None, scanned |-> TRUE]

(* ------------------------------- logging ------------------------------- *)

\* every level is printed only when verbose
LogVerboseOnly(out, verbose, level, message) ==
    IF verbose
    THEN Append(out, "[" \o level \o "] " \o message)
    ELSE out

\* lines 30-33
Log(out, verbose, level, message) ==
    IF verbose \/ level = "ERROR"
    THEN Append(out, "[" \o level \o "] " \o message)
    ELSE out

\* str() of the CalledProcessError of subprocess.run(check=True)
CalledProcessError(cmd, rc) ==
    "Command '" \o ReprList(cmd) \o "' returned non-zero exit status "
        \o ToString(rc) \o "."

\* the three error lines of a failed subprocess
LogFailure(out, verbose, what, cmd, r) ==
    Log(Log(Log(out, verbose, "ERROR", what \o ": " \o CalledProcessError(cmd, r.returncode)),
            verbose, "ERROR", "stdout: " \o r.stdout),
        verbose, "ERROR", "stderr: " \o r.stderr)

NoException == [type |-> "none", message |-> "", in |-> ""]
SubmitAppException(msg, where) == [type |-> "SubmitAppException", message |-> msg, in |-> where]
FileNotFoundError(where) ==
    [type |-> "FileNotFoundError", message |-> "[Errno 2] No such file or directory",
     in |-> where]
SystemExit(where) == [type |-> "SystemExit", message |-> "", in |-> where]

(* ------------------------------- state --------------------------------- *)

VARIABLES
    pc,             \* where the process is
    argv,           \* the command line
    args,           \* the Namespace, once parsed
    buildCalls,     \* subprocess.run() calls of build_ipa
    publishCalls,   \* subprocess.run() calls of submit_to_app_store
    buildCmd,       \* the command line of the build subprocess
    publishCmd,     \* the command line of the publish subprocess
    buildResult,    \* what the build subprocess came to
    publishResult,  \* what the publish subprocess came to
    disk,           \* the files on disk when the build subprocess has ended
    scanned,        \* build_ipa listed the output directory
    ipa_path,       \* what build_ipa returned
    raised,         \* the exception on its way to submit_app's handlers
    output,         \* the lines print() wrote
    exitCode        \* the process's exit status, -1 while it runs

vars ==
    <<pc, argv, args, buildCalls, publishCalls, buildCmd, publishCmd, buildResult,
      publishResult, disk, scanned, ipa_path, raised, output, exitCode>>

Start(lines) ==
    /\ pc = "main"
    /\ argv \in lines
    /\ args = <<>>
    /\ buildCalls = 0
    /\ publishCalls = 0
    /\ buildCmd = <<>>
    /\ publishCmd = <<>>
    /\ buildResult = NoResult
    /\ publishResult = NoResult
    /\ disk = <<>>
    /\ scanned = FALSE
    /\ ipa_path = None
    /\ raised = NoException
    /\ output = <<>>
    /\ exitCode = -1

\* any of the pair, both or neither, and up to MaxOptions other options
Init == Start(CommandLines(SUBSET PairOptions, MaxOptions))

(* ------------------------------ actions -------------------------------- *)

\* main, lines 343-347: parse_args() returns the Namespace or exits
ParseArgs ==
    /\ pc = "main"
    /\ \E st \in ParseOutcomes(argv) :
        IF st = "ok"
        THEN /\ args' = Namespace(argv)
             /\ pc' = "build"
             /\ UNCHANGED <<raised, exitCode>>
        ELSE /\ raised' = SystemExit("parse_args")
             /\ exitCode' = (IF st = "help" THEN 0 ELSE 2)
             /\ pc' = "exit"
             /\ UNCHANGED args
    /\ UNCHANGED <<argv, buildCalls, publishCalls, buildCmd, publishCmd, buildResult,
                   publishResult, disk, scanned, ipa_path, output>>

\* build_ipa, lines 54-99: the command is built and the subprocess started
BuildSpawn ==
    /\ pc = "build"
    /\ output' = Log(output, args.verbose, "INFO", "Building IPA...")
    /\ IF HasProject(args)
       THEN /\ buildCmd' = BuildCommand(args)
            /\ buildCalls' = buildCalls + 1
            /\ pc' = "building"
            /\ UNCHANGED raised
       ELSE /\ raised' = SubmitAppException(
                   "Either --xcode-project or --xcode-workspace must be specified",
                   "build_ipa")
            /\ pc' = "raised"
            /\ UNCHANGED <<buildCmd, buildCalls>>
    /\ UNCHANGED <<argv, args, publishCalls, publishCmd, buildResult, publishResult,
                   disk, scanned, ipa_path, exitCode>>

\* build_ipa, lines 99-128: the subprocess has ended
BuildReturns(outcomes) ==
    /\ pc = "building"
    /\ \E o \in outcomes :
        LET r   == o.result
            loc == LocateIpa(r.stdout, o.disk, args)
        IN  /\ buildResult' = r
            /\ disk' = o.disk
            /\ IF ~r.spawned
               THEN /\ raised' = FileNotFoundError("build_ipa")
                    /\ pc' = "raised"
                    /\ UNCHANGED <<output, ipa_path, scanned>>
               ELSE IF r.returncode # 0
               THEN /\ output' = LogFailure(output, args.verbose, "IPA build failed",
                                            buildCmd, r)
                    /\ raised' = SubmitAppException("IPA build failed", "build_ipa")
                    /\ pc' = "raised"
                    /\ UNCHANGED <<ipa_path, scanned>>
               ELSE IF loc.path = None
               THEN /\ scanned' = loc.scanned
                    /\ raised' = SubmitAppException("Could not find built IPA file",
                                                    "build_ipa")
                    /\ pc' = "raised"
                    /\ UNCHANGED <<output, ipa_path>>
               ELSE /\ scanned' = loc.scanned
                    /\ ipa_path' = loc.path
                    /\ output' = Log(output, args.verbose, "INFO",
                                     "Successfully built IPA: " \o loc.path)
                    /\ pc' = "publish"
                    /\ UNCHANGED raised
    /\ UNCHANGED <<argv, args, buildCalls, publishCalls, buildCmd, publishCmd,
                   publishResult, exitCode>>

BuildExit == BuildReturns(SpecBuildOutcomes)

\* submit_to_app_store, lines 132-195: the command is built and the subprocess started
PublishSpawn ==
    /\ pc = "publish"
    /\ output' = Log(output, args.verbose, "INFO",
                     "Submitting IPA to App Store Connect: " \o ipa_path)
    /\ publishCmd' = PublishCommand(ipa_path, args)
    /\ publishCalls' = publishCalls + 1
    /\ pc' = "publishing"
    /\ UNCHANGED <<argv, args, buildCalls, buildCmd, buildResult, publishResult, disk,
                   scanned, ipa_path, raised, exitCode>>

\* submit_to_app_store, lines 195-205, and submit_app, line 216
PublishExit ==
    /\ pc = "publishing"
    /\ \E r \in PublishOutcomes :
        /\ publishResult' = r
        /\ IF ~r.spawned
           THEN /\ raised' = FileNotFoundError("submit_to_app_store")
                /\ pc' = "raised"
                /\ UNCHANGED output
           ELSE IF r.returncode # 0
           THEN /\ output' = LogFailure(output, args.verbose,
                                        "App Store Connect submission failed",
                                        publishCmd, r)
                /\ raised' = SubmitAppException("App Store Connect submission failed",
                                                "submit_to_app_store")
                /\ pc' = "raised"
           ELSE /\ output' =
                      Log(Log(Log(output, args.verbose, "INFO",
                                  "Successfully submitted to App Store Connect"),
                              args.verbose, "INFO", "Output: " \o r.stdout),
                          args.verbose, "INFO", "App submission completed successfully!")
                /\ pc' = "returned"
                /\ UNCHANGED raised
    /\ UNCHANGED <<argv, args, buildCalls, publishCalls, buildCmd, publishCmd,
                   buildResult, disk, scanned, ipa_path, exitCode>>

\* the handlers log the error and return: the interpreter exits 0
CatchAndExitZero ==
    /\ pc = "raised"
    /\ output' = Log(output, args.verbose, "ERROR",
                     (IF raised.type = "SubmitAppException"
                      THEN "App submission failed: "
                      ELSE "Unexpected error: ") \o raised.message)
    /\ exitCode' = 0
    /\ pc' = "exit"
    /\ UNCHANGED <<argv, args, buildCalls, publishCalls, buildCmd, publishCmd,
                   buildResult, publishResult, disk, scanned, ipa_path, raised>>

\* a failed build is tried once more before the handlers give up
CatchAndRetry ==
    /\ pc = "raised"
    /\ IF raised.in = "build_ipa" /\ buildCalls < 2
       THEN /\ pc' = "build"
            /\ UNCHANGED <<output, exitCode>>
       ELSE /\ output' = Log(output, args.verbose, "ERROR",
                             (IF raised.type = "SubmitAppException"
                              THEN "App submission failed: "
                              ELSE "Unexpected error: ") \o raised.message)
            /\ exitCode' = 1
            /\ pc' = "exit"
    /\ UNCHANGED <<argv, args, buildCalls, publishCalls, buildCmd, publishCmd,
                   buildResult, publishResult, disk, scanned, ipa_path, raised>>

\* submit_app, lines 218-223: either handler logs the error and exits 1
CatchAndExit ==
    /\ pc = "raised"
    /\ output' = Log(output, args.verbose, "ERROR",
                     (IF raised.type = "SubmitAppException"
                      THEN "App submission failed: "
                      ELSE "Unexpected error: ") \o raised.message)
    /\ exitCode' = 1
    /\ pc' = "exit"
    /\ UNCHANGED <<argv, args, buildCalls, publishCalls, buildCmd, publishCmd,
                   buildResult, publishResult, disk, scanned, ipa_path, raised>>

\* main, line 349: submit_app returned and the interpreter exits 0
MainReturn ==
    /\ pc = "returned"
    /\ exitCode' = 0
    /\ pc' = "exit"
    /\ UNCHANGED <<argv, args, buildCalls, publishCalls, buildCmd, publishCmd,
                   buildResult, publishResult, disk, scanned, ipa_path, raised, output>>

Next ==
    \/ ParseArgs
    \/ BuildSpawn
    \/ BuildExit
    \/ PublishSpawn
    \/ PublishExit
    \/ CatchAndExit
    \/ MainReturn

Spec == Init /\ [][Next]_vars

(* --- the two command lines, over more options: the build prints its package --- *)

CmdInit == Start(CommandLines({{"xcode_project"}, {"xcode_workspace"}}, MaxCmdOptions))

CmdBuildExit == BuildReturns(CmdBuildOutcomes)

CmdNext ==
    \/ ParseArgs
    \/ BuildSpawn
    \/ CmdBuildExit
    \/ PublishSpawn

CmdSpec == CmdInit /\ [][CmdNext]_vars

(* --- finding the package, over every output and disk within the bounds --- *)

LocateCommandLines ==
    {CommandLine(f) : f \in {("xcode_project" :> "App.xcodeproj")}
                            \cup {("xcode_project" :> "App.xcodeproj")
                                    @@ ("ipa_directory" :> t) : t \in Tokens("ipa_directory")}}

LocateInit == Start(LocateCommandLines)

LocateBuildExit == BuildReturns(LocateBuildOutcomes)

LocateNext ==
    \/ ParseArgs
    \/ BuildSpawn
    \/ LocateBuildExit
    \/ PublishSpawn

LocateSpec == LocateInit /\ [][LocateNext]_vars

(* ============================== properties ============================= *)

Count(cmd, token) == Cardinality({i \in 1..Len(cmd) : cmd[i] = token})

HasPair(cmd, flag, value) ==
    \E i \in 1..(Len(cmd) - 1) : cmd[i] = flag /\ cmd[i + 1] = value

StartsWith(s, prefix) == Len(s) >= Len(prefix) /\ SubSeq(s, 1, Len(prefix)) = prefix

Contains(s, t) == \E i \in 1..(Len(s) - Len(t) + 1) : SubSeq(s, i, i + Len(t) - 1) = t

Printed(line) == \E i \in 1..Len(output) : output[i] = line

Given(o) == argv[o] # Absent

\* both of the pair are given, or neither
BadPair == Given("xcode_project") = Given("xcode_workspace")

BuildExitedZero == buildResult.spawned /\ buildResult.returncode = 0
BuildExitedNonZero == buildResult.spawned /\ buildResult.returncode # 0
PublishExitedZero == publishResult.spawned /\ publishResult.returncode = 0
PublishExitedNonZero == publishResult.spawned /\ publishResult.returncode # 0

\* the output lines that end in .ipa and name a file on disk
PackageLines ==
    LET lines == OutputLines(buildResult.stdout)
    IN  {i \in 1..Len(lines) :
            EndsWith(lines[i], ".ipa") /\ Exists(disk, PathStr(lines[i]))}

\* the configured output directory, or the default one
OutputDir ==
    IF Given("ipa_directory") THEN PathStr(argv["ipa_directory"]) ELSE "build/ios/ipa"

\* the entries of the output directory that are packages
PackageFiles ==
    {i \in 1..Len(disk) : PathStr(disk[i][1]) = OutputDir /\ EndsWith(disk[i][2], ".ipa")}

Least(S) == CHOOSE i \in S : \A j \in S : i <= j

BothStagesSucceeded == BuildExitedZero /\ ipa_path # None /\ PublishExitedZero

(* C1: when both or neither of the project and workspace paths are given, no
   build or publish subprocess is ever started, and the invocation ends in the
   argument parser with a non-zero exit status (a -h invocation aside, which
   prints the help). *)
C1_ConfigErrorBeforeSpawn ==
    BadPair =>
        /\ buildCalls = 0
        /\ publishCalls = 0
        /\ pc \in {"main", "exit"}
        /\ pc = "exit" => raised.in = "parse_args"
        /\ pc = "exit" /\ ~Given("help") => exitCode = 2

C1_Witness ==
    /\ pc = "exit"
    /\ Given("xcode_project") /\ Given("xcode_workspace") /\ ~Given("help")
    /\ exitCode = 2

(* C2: the publish subprocess is started only after the build subprocess has
   exited 0 and a package path is resolved; when the build stage fails (the
   pair is rejected, the build cannot start, exits non-zero, or exits 0 with
   no package in its output or in the output directory) it is never started. *)
BuildStageFailed ==
    \/ BadPair
    \/ /\ buildCalls > 0
       /\ pc # "building"
       /\ \/ ~buildResult.spawned
          \/ buildResult.returncode # 0
          \/ PackageLines = {} /\ PackageFiles = {}

C2_PublishOnlyAfterBuild ==
    /\ publishCalls > 0 =>
          /\ buildCalls = 1
          /\ BuildExitedZero
          /\ ipa_path # None
          /\ pc \in {"publishing", "returned", "raised", "exit"}
    /\ pc = "building" => publishCalls = 0
    /\ BuildStageFailed => publishCalls = 0 /\ pc \in {"main", "raised", "exit"}

C2_Witness ==
    /\ pc = "exit"
    /\ BuildExitedZero
    /\ PackageLines = {} /\ PackageFiles = {}
    /\ publishCalls = 0

(* C3, as claimed: an invocation (other than -h) ends with exit code 0 exactly
   when both stages succeeded and with exit code 1 otherwise, a rejected
   project/workspace pair included. *)
C3_Original ==
    pc = "exit" /\ ~Given("help") =>
        /\ exitCode = 0 <=> BothStagesSucceeded
        /\ exitCode # 0 => exitCode = 1

\* the argument parser has something to reject
Rejectable ==
    \/ BadPair
    \/ Given("max_build_processing_wait") /\ ~IsInt(argv["max_build_processing_wait"])

(* C3, amended: an invocation ends with exit code 0, 1 or 2.  Without -h: 2
   exactly when the argument parser rejects the command line (the pair both or
   neither given, or an option value it cannot convert), and then no stage
   runs; 0 exactly when both stages succeeded; 1 exactly when a stage ran and
   failed (build failure, publish failure, unexpected error).  With -h no
   stage runs and the exit code is 0, or 2 for a command line the parser
   rejects. *)
C3_ExitCodes ==
    pc = "exit" =>
        /\ exitCode \in {0, 1, 2}
        /\ Given("help") =>
              /\ exitCode \in {0, 2}
              /\ exitCode = 2 => Rejectable
              /\ buildCalls = 0 /\ publishCalls = 0
        /\ ~Given("help") =>
              /\ exitCode = 2 <=> Rejectable
              /\ exitCode = 2 => buildCalls = 0 /\ publishCalls = 0
              /\ exitCode = 0 <=> BothStagesSucceeded
              /\ exitCode = 1 <=> buildCalls = 1 /\ ~BothStagesSucceeded

C3_Witness ==
    /\ pc = "exit"
    /\ ~Given("xcode_project") /\ ~Given("xcode_workspace") /\ ~Given("help")
    /\ exitCode = 2

(* C4: every publish command line carries --max-build-processing-wait exactly
   once, with the caller's integer (0 included) or 600 when the caller gave
   none. *)
C4_WaitAlwaysEmitted ==
    publishCalls > 0 =>
        /\ Count(publishCmd, "--max-build-processing-wait") = 1
        /\ HasPair(publishCmd, "--max-build-processing-wait",
                   ToString(IF Given("max_build_processing_wait")
                            THEN ParseInt(argv["max_build_processing_wait"])
                            ELSE 600))

\* the flag of each optional field, and the command line it belongs to
FlagOf ==
    [scheme |-> "--scheme", target |-> "--target", configuration |-> "--configuration",
     clean |-> "--clean", archive_directory |-> "--archive-directory",
     ipa_directory |-> "--ipa-directory",
     export_options_plist |-> "--export-options-plist",
     remove_xcarchive |-> "--remove-xcarchive",
     key_identifier |-> "--key-id", issuer_id |-> "--issuer-id",
     private_key |-> "--private-key", private_key_path |-> "--private-key",
     apple_id |-> "--apple-id", app_specific_password |-> "--app-specific-password",
     submit_to_app_store |-> "--submit-to-app-store",
     version_string |-> "--version-string", whats_new |-> "--whats-new",
     description |-> "--description", keywords |-> "--keywords",
     marketing_url |-> "--marketing-url", support_url |-> "--support-url",
     copyright |-> "--copyright", earliest_release_date |-> "--earliest-release-date",
     phased_release |-> "--enable-phased-release",
     cancel_previous_submissions |-> "--cancel-previous-submissions",
     max_build_processing_wait |-> "--max-build-processing-wait"]

BuildFields ==
    {"scheme", "target", "configuration", "clean", "archive_directory", "ipa_directory",
     "export_options_plist", "remove_xcarchive"}

BooleanFields == FlagOptions

\* the field was given, and not as the empty string
FieldSet(o) == Given(o) /\ (o \in StrOptions => argv[o] # "")

\* the value the field holds, as the command line shows it
FieldValue(o) ==
    IF o \in IntOptions THEN ToString(args[o]) ELSE args[o]

\* the omission property of one field: its flag appears in neither command line
\* when the field is unset; when it is set it appears once, in its own command
\* line, followed by the field's value unless the field is a boolean
Omission(o) ==
    LET own == IF o \in BuildFields THEN buildCmd ELSE publishCmd
    IN  IF FieldSet(o)
        THEN /\ Count(buildCmd \o publishCmd, FlagOf[o]) = 1
             /\ Count(own, FlagOf[o]) = 1
             /\ o \notin BooleanFields => HasPair(own, FlagOf[o], FieldValue(o))
        ELSE Count(buildCmd \o publishCmd, FlagOf[o]) = 0

(* C5, as claimed: the omission property holds of every optional field.  It
   is stated here of the requests whose maximum processing wait is not 0, the
   value that C4's truthiness test drops, and fails of them as well. *)
C5_Original ==
    publishCalls > 0 /\ args.max_build_processing_wait # 0 =>
        \A o \in DOMAIN FlagOf : Omission(o)

(* C5, amended: the omission property holds of every optional field other than
   the private key, the private-key path and the maximum processing wait; a
   string field given as the empty string counts as unset. *)
C5_Omission ==
    publishCalls > 0 =>
        \A o \in DOMAIN FlagOf \ {"private_key", "private_key_path",
                                  "max_build_processing_wait"} : Omission(o)

C5_Witness ==
    /\ publishCalls > 0
    /\ FieldSet("scheme")
    /\ FieldSet("submit_to_app_store")

(* C6: a build that exits non-zero ends in a build failure and a publish that
   exits non-zero in a publish failure; the exit code is then non-zero, and the
   failed subprocess's command line, stdout and stderr are printed in [ERROR]
   lines whatever the verbosity; [INFO] lines are printed only when verbose. *)
FailureLogged(cmd, r) ==
    /\ \E i \in 1..Len(output) :
          StartsWith(output[i], "[ERROR] ") /\ Contains(output[i], ReprList(cmd))
    /\ Printed("[ERROR] stdout: " \o r.stdout)
    /\ Printed("[ERROR] stderr: " \o r.stderr)

C6_FailuresLogged ==
    /\ BuildExitedNonZero =>
          /\ raised = SubmitAppException("IPA build failed", "build_ipa")
          /\ publishCalls = 0
          /\ FailureLogged(buildCmd, buildResult)
    /\ PublishExitedNonZero =>
          /\ raised = SubmitAppException("App Store Connect submission failed",
                                         "submit_to_app_store")
          /\ FailureLogged(publishCmd, publishResult)
    /\ pc = "exit" /\ (BuildExitedNonZero \/ PublishExitedNonZero) =>
          /\ exitCode # 0
          /\ Printed("[ERROR] App submission failed: " \o raised.message)
    /\ \A i \in 1..Len(output) : StartsWith(output[i], "[INFO]") => args.verbose

C6_Witness ==
    /\ pc = "exit"
    /\ BuildExitedZero /\ PublishExitedNonZero
    /\ ~args.verbose

(* C7: the publish command line has the package path as its positional
   argument and at most one --private-key: the inline key when one is set
   (whether or not a key file is), "@file:" and the key-file path when only
   that is set, none when neither is; --key-id, --issuer-id, --apple-id and
   --app-specific-password are each emitted whenever their field is set,
   whatever the others are. *)
C7_Credentials ==
    publishCalls > 0 =>
        /\ publishCmd[5] = ipa_path
        /\ SubSeq(publishCmd, 1, 4) =
              <<"python3", "-m", "codemagic.tools.app_store_connect", "publish">>
        /\ Count(publishCmd, "--private-key") <= 1
        /\ FieldSet("private_key") =>
              HasPair(publishCmd, "--private-key", argv["private_key"])
        /\ ~FieldSet("private_key") /\ Given("private_key_path") =>
              HasPair(publishCmd, "--private-key",
                      "@file:" \o PathStr(argv["private_key_path"]))
        /\ ~FieldSet("private_key") /\ ~Given("private_key_path") =>
              Count(publishCmd, "--private-key") = 0
        /\ \A o \in {"key_identifier", "issuer_id", "apple_id", "app_specific_password"} :
              IF FieldSet(o)
              THEN Count(publishCmd, FlagOf[o]) = 1 /\ HasPair(publishCmd, FlagOf[o], argv[o])
              ELSE Count(publishCmd, FlagOf[o]) = 0

C7_Witness ==
    /\ publishCalls > 0
    /\ FieldSet("private_key")
    /\ Given("private_key_path")

(* C8: when the build exits 0 and some output line ends in .ipa and names a
   file on disk, build_ipa returns the path of the first such line, does not
   list the output directory, and the publish command line carries that path. *)
C8_FirstPackageLine ==
    pc # "building" /\ BuildExitedZero /\ PackageLines # {} =>
        /\ ipa_path = PathStr(OutputLines(buildResult.stdout)[Least(PackageLines)])
        /\ ~scanned
        /\ raised = NoException
        /\ publishCalls > 0 => publishCmd[5] = ipa_path

C8_Witness ==
    /\ publishCalls > 0
    /\ BuildExitedZero
    /\ PackageLines # {}
    /\ Least(PackageLines) > 1
    /\ EndsWith(OutputLines(buildResult.stdout)[1], ".ipa")

(* C9: when the build exits 0 and no output line ends in .ipa and names a file
   on disk, build_ipa lists the configured output directory (build/ios/ipa when
   none is configured) and returns its first package in directory order, or
   fails with "Could not find built IPA file" when it holds none. *)
C9_DirectoryFallback ==
    pc # "building" /\ BuildExitedZero /\ PackageLines = {} =>
        /\ scanned
        /\ PackageFiles # {} =>
              /\ ipa_path = PathJoin(OutputDir, disk[Least(PackageFiles)][2])
              /\ raised = NoException
        /\ PackageFiles = {} =>
              /\ ipa_path = None
              /\ raised = SubmitAppException("Could not find built IPA file", "build_ipa")
              /\ publishCalls = 0

C9_Witness ==
    /\ publishCalls > 0
    /\ BuildExitedZero
    /\ PackageLines = {}
    /\ Given("ipa_directory")
    /\ Cardinality(PackageFiles) > 1
    /\ ipa_path = "out/B.ipa"

(* C10: the build subprocess is started at most once and the publish
   subprocess at most once, and once a stage has failed no subprocess is
   started any more. *)
C10_NoRetries ==
    /\ [](buildCalls <= 1 /\ publishCalls <= 1)
    /\ [][raised # NoException =>
            buildCalls' = buildCalls /\ publishCalls' = publishCalls]_vars

C10_Witness ==
    /\ pc = "exit"
    /\ raised.in = "submit_to_app_store"
    /\ buildCalls = 1
    /\ publishCalls = 1

=============================================================================
